---- MODULE Spec2Model ----
(***************************************************************************)
(* L2TP control-message layer of go-l2tp: the byte-level framing, the v2   *)
(* and v3 decoders, the receive-buffer splitter (both revisions of it),    *)
(* the v2 message constructors/mutators, the per-type AVP specification    *)
(* table and validate().                                                   *)
(*                                                                         *)
(* Octets are naturals 0..255, buffers are sequences of octets, all header *)
(* fields are unsigned 16-bit big-endian words as on the wire.  The AVP    *)
(* codec (avp.go) is not part of the sources at hand; it is modelled from  *)
(* the interface the specification pins down and the RFC 2661 AVP layout.  *)
(***************************************************************************)
EXTENDS Integers, Sequences, FiniteSets, TLC

VARIABLES
    mode,      \* "rx": a received buffer is parsed; "tx": a message is built
    rev,       \* which revision's buffer parser runs: "msg.go" or "part_000"
    chunks,    \* the kinds of the pieces the received buffer was made of
    buf,       \* b: the byte slice handed to the buffer parser
    pos,       \* r's read index (bytes.Reader position)
    messages,  \* the messages the parser has appended so far
    err,       \* the error the parser returned ("" is nil)
    pc,        \* "idle", "parsing", "done" (returned), "abort" (panic)
    last,      \* the last loop iteration: cursor, header length, slice, AVP parse
    msg,       \* the message under construction (tx), NoMsg if none
    bres,      \* outcome of the last constructor/builder call
    vmsg,      \* the message validate() was last called on
    vres,      \* what that call returned
    vprev,     \* what the call before it returned on the same message
    edits      \* mutator calls made on the messages the parser returned

vars == <<mode, rev, chunks, buf, pos, messages, err, pc, last, msg, bres,
          vmsg, vres, vprev, edits>>

----------------------------------------------------------------------------
(* Bounds of the model *)

MaxChunks == 3
MaxAvps == 3
MaxBigAvps == 66
MaxEdits == 1

----------------------------------------------------------------------------
(* Program constants *)

controlMessageMinLen == 12
commonHeaderLen == 4
v2HeaderLen == 12
v3HeaderLen == 12
mustExist == 1
mayExist == 2
ProtocolVersion2 == 2
ProtocolVersion3 == 3

\* Width of the header words (uint16)
Uint16Mod == 65536

\* avp.go / RFC 2661 section 4.4: AVP attribute types
avpHeaderLen == 6
avpMaxLen == 1023
vendorIDIetf == 0
avpTypeMessage == 0
avpTypeResultCode == 1
avpTypeProtocolVersion == 2
avpTypeFramingCap == 3
avpTypeBearerCap == 4
avpTypeTiebreaker == 5
avpTypeFirmwareRevision == 6
avpTypeHostName == 7
avpTypeVendorName == 8
avpTypeTunnelID == 9
avpTypeRxWindowSize == 10
avpTypeChallenge == 11
avpTypeChallengeResponse == 13
avpTypeSessionID == 14

\* avp.go / RFC 2661 section 3.2: message types; Ack is the RFC 3931 value
avpMsgTypeSccrq == 1
avpMsgTypeSccrp == 2
avpMsgTypeScccn == 3
avpMsgTypeStopccn == 4
avpMsgTypeHello == 6
avpMsgTypeAck == 20

\* Largest tunnel/session id a v2 header can carry
v2TidSidMax == 65535

----------------------------------------------------------------------------
(* encoding/binary, big endian *)

\* binary.Write of a uint16
PutU16(x) == <<x \div 256, x % 256>>

\* binary.Read of a uint16 at 0-based offset i of b
GetU16(b, i) == b[i + 1] * 256 + b[i + 2]

\* binary.Write of a uint32
PutU32(x) == <<(x \div 16777216) % 256, (x \div 65536) % 256,
               (x \div 256) % 256, x % 256>>

\* uint16(x) conversion of a wider unsigned integer
ToU16(x) == x % Uint16Mod

\* Go slice b[lo:hi]
Slice(b, lo, hi) == SubSeq(b, lo + 1, hi)

\* bytes.Reader.Len(): the unread octets; 0 once the index is past the end
rLen(b, i) == IF i >= Len(b) THEN 0 ELSE Len(b) - i

----------------------------------------------------------------------------
(* The AVP codec: the collaborator interface of the message layer.         *)
(* An AVP is [FlagLen, VendorID, AvpType, data]: a 6-octet header whose    *)
(* first word holds the flag bits and the 10-bit total length, then the    *)
(* raw payload.                                                            *)

\* avp.getType()
avpGetType(a) == a.AvpType

\* avp.totalLen(): header plus payload octets
totalLen(a) == avpHeaderLen + Len(a.data)

\* avpsLengthBytes(avps): the octets a sequence of AVPs encodes to
RECURSIVE avpsLengthBytes(_)
avpsLengthBytes(avps) ==
    IF avps = <<>> THEN 0
    ELSE totalLen(Head(avps)) + avpsLengthBytes(Tail(avps))

\* The values a builder hands to newAvp: k is the Go type of the value,
\* n its number, s its octets.
Val(k, n, s) == [k |-> k, n |-> n, s |-> s]

\* binary.Write of an AVP value; the result code is its 16-bit code followed
\* by the error code and message, a nil value cannot be written.
encodeValue(v) ==
    CASE v.k = "u16" -> PutU16(v.n)
      [] v.k = "u32" -> PutU32(v.n)
      [] v.k = "rc" -> PutU16(v.n) \o v.s
      [] OTHER -> v.s

\* newAvp(vendorID, type, value): a mandatory, not hidden AVP
newAvp(vendorID, typ, v) ==
    IF v.k = "nil"
    THEN [err |-> "unhandled AVP data type", avp |-> <<>>]
    ELSE [err |-> "",
          avp |-> [FlagLen |-> 32768 + avpHeaderLen + Len(encodeValue(v)),
                   VendorID |-> vendorID,
                   AvpType |-> typ,
                   data |-> encodeValue(v)]]

\* parseAVPBuffer(b), from read index i on, acc the AVPs found so far:
\* fewer than a header's octets left ends the parse; an AVP whose length
\* field is shorter than its header or runs past the buffer is an error.
RECURSIVE parseAVPs(_, _, _)
parseAVPs(b, i, acc) ==
    IF rLen(b, i) < avpHeaderLen
    THEN [err |-> "", avps |-> acc]
    ELSE LET flagLen == GetU16(b, i)
             length == flagLen % 1024
         IN  IF length < avpHeaderLen \/ length - avpHeaderLen > rLen(b, i + avpHeaderLen)
             THEN [err |-> "malformed AVP buffer", avps |-> <<>>]
             ELSE parseAVPs(b, i + length,
                      Append(acc, [FlagLen |-> flagLen,
                                   VendorID |-> GetU16(b, i + 2),
                                   AvpType |-> GetU16(b, i + 4),
                                   data |-> Slice(b, i + avpHeaderLen, i + length)]))

parseAVPBuffer(b) == parseAVPs(b, 0, <<>>)

\* avp.decodeMsgType(): the payload of a Message Type AVP is one uint16
decodeMsgType(a) ==
    IF Len(a.data) = 2
    THEN [err |-> "", mt |-> GetU16(a.data, 0)]
    ELSE [err |-> "invalid message type AVP", mt |-> 0]

\* avp.decode() succeeds: the payload has the octets its type's value needs
avpDecodes(a) ==
    LET t == a.AvpType
        n == Len(a.data)
    IN  CASE t \in {avpTypeMessage, avpTypeFirmwareRevision, avpTypeTunnelID,
                    avpTypeRxWindowSize, avpTypeSessionID} -> n = 2
          [] t \in {avpTypeFramingCap, avpTypeBearerCap} -> n = 4
          [] t = avpTypeResultCode -> n >= 2
          [] t \in {avpTypeProtocolVersion, avpTypeTiebreaker, avpTypeHostName,
                    avpTypeVendorName, avpTypeChallenge,
                    avpTypeChallengeResponse} -> TRUE
          [] OTHER -> FALSE

\* the octets toBytes writes for one AVP: its header, then its payload
avpBytes(a) ==
    PutU16(a.FlagLen) \o PutU16(a.VendorID) \o PutU16(a.AvpType) \o a.data

----------------------------------------------------------------------------
(* Headers and messages *)

\* l2tpV2Header, l2tpV3Header; a message is its version, header and AVPs.
\* The 32-bit control connection id is kept as its two 16-bit halves.
V2Header(fv, len, tid, sid, ns, nr) ==
    [FlagsVer |-> fv, Len |-> len, Tid |-> tid, Sid |-> sid, Ns |-> ns, Nr |-> nr]

V3Header(fv, len, ccid, ns, nr) ==
    [FlagsVer |-> fv, Len |-> len, Ccid |-> ccid, Ns |-> ns, Nr |-> nr]

Message(ver, hdr, avps) == [ver |-> ver, header |-> hdr, avps |-> avps]

NoMsg == Message(0, V2Header(0, 0, 0, 0, 0, 0), <<>>)

\* protocolVersion without its final error return: any nibble but 3 is v2
protocolVersionNoDefault(flagsVer) ==
    IF flagsVer % 16 = 3
    THEN [err |-> "", ver |-> ProtocolVersion3]
    ELSE [err |-> "", ver |-> ProtocolVersion2]

\* h.protocolVersion(): the low nibble of the flags/version word
protocolVersion(flagsVer) ==
    CASE flagsVer % 16 = 2 -> [err |-> "", ver |-> ProtocolVersion2]
      [] flagsVer % 16 = 3 -> [err |-> "", ver |-> ProtocolVersion3]
      [] OTHER -> [err |-> "illegal protocol version", ver |-> 0]

\* newL2tpV2MessageHeader: the length is narrowed to the 16-bit field
newL2tpV2MessageHeader(tid, sid, ns, nr, payloadBytes) ==
    V2Header(51202, ToU16(v2HeaderLen + payloadBytes), tid, sid, ns, nr)

\* binary.Read of a 12-octet header from a slice: EOF on an empty slice,
\* unexpected EOF on a short one
readHeaderErr(b) ==
    IF Len(b) = 0 THEN "EOF"
    ELSE IF Len(b) < v2HeaderLen THEN "unexpected EOF"
    ELSE ""

\* What a decoder gives back: a message, an error, or a run-time panic;
\* avpParsed tells whether parseAVPBuffer was called.
Decoded(m, parsed) == [status |-> "ok", err |-> "", msg |-> m, avpParsed |-> parsed]
DecodeErr(e, parsed) == [status |-> "err", err |-> e, msg |-> NoMsg, avpParsed |-> parsed]
DecodePanic(parsed) == [status |-> "panic", err |-> "", msg |-> NoMsg, avpParsed |-> parsed]

\* binary.Read of an l2tpV2Header from the head of b
readV2Header(b) ==
    V2Header(GetU16(b, 0), GetU16(b, 2), GetU16(b, 4),
             GetU16(b, 6), GetU16(b, 8), GetU16(b, 10))

\* A Go slice handed to a decoder is its octets b (len(b) of them) and spare,
\* the octets of the backing array between len(b) and cap(b): a slice
\* expression b[lo:hi] on a slice is bounded by the capacity, not the length.
Backing(b, spare) == b \o spare

\* the AVP branch of bytesToV2CtlMsg with the first-AVP check left out
decodeV2AvpsUnchecked(hdr, b, spare) ==
    IF hdr.Len > Len(Backing(b, spare))
    THEN DecodePanic(FALSE)
    ELSE LET r == parseAVPBuffer(Slice(Backing(b, spare), v2HeaderLen, hdr.Len))
         IN  IF r.err # "" THEN DecodeErr(r.err, TRUE)
             ELSE Decoded(Message(2, hdr, r.avps), TRUE)

\* bytesToV2CtlMsg, the branch hdr.Common.Len > v2HeaderLen: the payload
\* b[v2HeaderLen:hdr.Common.Len] is parsed and avps[0] must be Message Type
decodeV2Avps(hdr, b, spare) ==
    IF hdr.Len > Len(Backing(b, spare))
    THEN DecodePanic(FALSE)                     \* slice bounds out of range
    ELSE LET r == parseAVPBuffer(Slice(Backing(b, spare), v2HeaderLen, hdr.Len))
         IN  IF r.err # "" THEN DecodeErr(r.err, TRUE)
             ELSE IF r.avps = <<>>
             THEN DecodePanic(TRUE)             \* avps[0]: index out of range
             ELSE IF avpGetType(r.avps[1]) # avpTypeMessage
             THEN DecodeErr("first AVP is not Message Type AVP", TRUE)
             ELSE Decoded(Message(2, hdr, r.avps), TRUE)

\* bytesToV2CtlMsg parsing the AVP payload of a header-only frame as well
bytesToV2CtlMsgAlwaysParse(b, spare) ==
    IF readHeaderErr(b) # ""
    THEN DecodeErr(readHeaderErr(b), FALSE)
    ELSE IF readV2Header(b).Len >= v2HeaderLen
    THEN decodeV2Avps(readV2Header(b), b, spare)
    ELSE Decoded(Message(2, readV2Header(b), <<>>), FALSE)

\* bytesToV2CtlMsg(b); the header is read from the len(b) octets of b
bytesToV2CtlMsg(b, spare) ==
    IF readHeaderErr(b) # ""
    THEN DecodeErr(readHeaderErr(b), FALSE)
    ELSE IF readV2Header(b).Len > v2HeaderLen
    THEN decodeV2Avps(readV2Header(b), b, spare)
    ELSE Decoded(Message(2, readV2Header(b), <<>>), FALSE)

\* bytesToV3CtlMsg(b): the AVP payload is parsed whatever the length
bytesToV3CtlMsg(b, spare) ==
    IF readHeaderErr(b) # ""
    THEN DecodeErr(readHeaderErr(b), FALSE)
    ELSE LET hdr == V3Header(GetU16(b, 0), GetU16(b, 2),
                             <<GetU16(b, 4), GetU16(b, 6)>>,
                             GetU16(b, 8), GetU16(b, 10))
         IN  IF hdr.Len > Len(Backing(b, spare)) \/ hdr.Len < v3HeaderLen
             THEN DecodePanic(FALSE)           \* slice bounds out of range
             ELSE LET r == parseAVPBuffer(Slice(Backing(b, spare), v3HeaderLen, hdr.Len))
                  IN  IF r.err # "" THEN DecodeErr(r.err, TRUE)
                      ELSE IF r.avps = <<>>
                      THEN DecodePanic(TRUE)        \* avps[0]: index out of range
                      ELSE IF avpGetType(r.avps[1]) # avpTypeMessage
                      THEN DecodeErr("first AVP is not Message Type AVP", TRUE)
                      ELSE Decoded(Message(3, hdr, r.avps), TRUE)

\* msg.go: newL2tpV2ControlMessage(b), the earlier revision of the v2
\* decoder; its text is that of bytesToV2CtlMsg
newL2tpV2ControlMessage(b, spare) ==
    IF readHeaderErr(b) # ""
    THEN DecodeErr(readHeaderErr(b), FALSE)
    ELSE IF readV2Header(b).Len > v2HeaderLen
    THEN decodeV2Avps(readV2Header(b), b, spare)
    ELSE Decoded(Message(2, readV2Header(b), <<>>), FALSE)

\* msg.go: newL2tpV3ControlMessage(b), a stub
newL2tpV3ControlMessage(b, spare) ==
    DecodeErr("newL2tpV3ControlMessage not implemented", FALSE)

\* getType(): the value of the Message Type AVP; a v2 message without AVPs
\* is a ZLB ack; a first AVP of another type, or one that does not decode,
\* panics, and so does a v3 message without AVPs (avps[0]).
getType(m) ==
    IF m.avps = <<>>
    THEN IF m.ver = 2 THEN [status |-> "ok", mt |-> avpMsgTypeAck]
         ELSE [status |-> "panic", mt |-> 0]
    ELSE IF avpGetType(m.avps[1]) # avpTypeMessage
    THEN [status |-> "panic", mt |-> 0]
    ELSE IF decodeMsgType(m.avps[1]).err # ""
    THEN [status |-> "panic", mt |-> 0]
    ELSE [status |-> "ok", mt |-> decodeMsgType(m.avps[1]).mt]

\* the header as binary.Write emits it
headerBytes(m) ==
    IF m.ver = 3
    THEN PutU16(m.header.FlagsVer) \o PutU16(m.header.Len) \o PutU16(m.header.Ccid[1])
         \o PutU16(m.header.Ccid[2])
         \o PutU16(m.header.Ns) \o PutU16(m.header.Nr)
    ELSE PutU16(m.header.FlagsVer) \o PutU16(m.header.Len) \o PutU16(m.header.Tid)
         \o PutU16(m.header.Sid) \o PutU16(m.header.Ns) \o PutU16(m.header.Nr)

RECURSIVE avpsBytes(_)
avpsBytes(avps) ==
    IF avps = <<>> THEN <<>>
    ELSE avpBytes(Head(avps)) \o avpsBytes(Tail(avps))

\* toBytes(): the header, then each AVP's header and payload, in order
toBytes(m) == headerBytes(m) \o avpsBytes(m.avps)

\* appendAvp that forgets the header length
appendAvpKeepLen(m, a) == [m EXCEPT !.avps = Append(@, a)]

\* appendAvp(avp): the AVP joins the sequence, the 16-bit length grows by it
appendAvp(m, a) ==
    [m EXCEPT !.avps = Append(@, a),
              !.header.Len = ToU16(@ + ToU16(totalLen(a)))]

\* setTransportSeqNum(ns, nr)
setTransportSeqNum(m, ns, nr) ==
    [m EXCEPT !.header.Ns = ns, !.header.Nr = nr]

\* newV2ControlMessage(tid, sid, avps)
newV2ControlMessage(tid, sid, avps) ==
    IF tid > v2TidSidMax
    THEN [err |-> "v2 tunnel ID out of range", msg |-> NoMsg]
    ELSE IF sid > v2TidSidMax
    THEN [err |-> "v2 session ID out of range", msg |-> NoMsg]
    ELSE [err |-> "",
          msg |-> Message(2, newL2tpV2MessageHeader(ToU16(tid), ToU16(sid), 0, 0,
                                                    avpsLengthBytes(avps)), avps)]

\* newL2tpV3MessageHeader: the length is narrowed to the 16-bit field
newL2tpV3MessageHeader(ccid, ns, nr, payloadBytes) ==
    V3Header(51203, ToU16(v3HeaderLen + payloadBytes), ccid, ns, nr)

\* newV3ControlMessage(ccid, avps): never fails; the 32-bit control
\* connection id is stored as its two halves
newV3ControlMessage(ccid, avps) ==
    [err |-> "",
     msg |-> Message(3, newL2tpV3MessageHeader(<<ccid \div Uint16Mod, ccid % Uint16Mod>>,
                                               0, 0, avpsLengthBytes(avps)), avps)]

----------------------------------------------------------------------------
(* Message specifications and validate() *)

v2SccrqMsgSpec ==
    (avpTypeMessage :> mustExist) @@ (avpTypeProtocolVersion :> mustExist) @@
    (avpTypeHostName :> mustExist) @@ (avpTypeFramingCap :> mustExist) @@
    (avpTypeTunnelID :> mustExist) @@
    (avpTypeBearerCap :> mayExist) @@ (avpTypeRxWindowSize :> mayExist) @@
    (avpTypeChallenge :> mayExist) @@ (avpTypeTiebreaker :> mayExist) @@
    (avpTypeFirmwareRevision :> mayExist) @@ (avpTypeVendorName :> mayExist)

v2SccrpMsgSpec ==
    (avpTypeMessage :> mustExist) @@ (avpTypeProtocolVersion :> mustExist) @@
    (avpTypeFramingCap :> mustExist) @@ (avpTypeHostName :> mustExist) @@
    (avpTypeTunnelID :> mustExist) @@
    (avpTypeBearerCap :> mayExist) @@ (avpTypeRxWindowSize :> mayExist) @@
    (avpTypeChallenge :> mayExist) @@ (avpTypeChallengeResponse :> mayExist) @@
    (avpTypeTiebreaker :> mayExist) @@ (avpTypeFirmwareRevision :> mayExist) @@
    (avpTypeVendorName :> mayExist)

v2ScccnMsgSpec ==
    (avpTypeMessage :> mustExist) @@ (avpTypeChallengeResponse :> mayExist)

v2StopccnMsgSpec ==
    (avpTypeMessage :> mustExist) @@ (avpTypeTunnelID :> mustExist) @@
    (avpTypeResultCode :> mustExist)

v2HelloMsgSpec == (avpTypeMessage :> mustExist)

\* getV2MsgSpec(t): the table of the message type, or an error
getV2MsgSpec(t) ==
    CASE t = avpMsgTypeSccrq -> [err |-> "", m |-> v2SccrqMsgSpec]
      [] t = avpMsgTypeSccrp -> [err |-> "", m |-> v2SccrpMsgSpec]
      [] t = avpMsgTypeScccn -> [err |-> "", m |-> v2ScccnMsgSpec]
      [] t = avpMsgTypeStopccn -> [err |-> "", m |-> v2StopccnMsgSpec]
      [] t = avpMsgTypeHello -> [err |-> "", m |-> v2HelloMsgSpec]
      [] OTHER -> [err |-> "no specification for v2 message", m |-> <<>>]

\* spec.hasAvp(t)
hasAvp(spec, t) == t \in DOMAIN spec

\* spec.must()
must(spec) == {t \in DOMAIN spec : spec[t] = mustExist}

\* What validate() returns: kind "ok" is nil; at is the AVP type the error
\* names (-1 if none); kind "abort" is a panic raised by getType().
VResult(kind, at) == [kind |-> kind, at |-> at]
NoResult == VResult("none", -1)

\* the walk passing over AVPs that are not in the table
RECURSIVE validateWalkLenient(_, _, _)
validateWalkLenient(spec, avps, seen) ==
    IF avps = <<>>
    THEN [res |-> VResult("ok", -1), seen |-> seen]
    ELSE LET a == Head(avps)
             t == avpGetType(a)
         IN  IF ~hasAvp(spec, t)
             THEN validateWalkLenient(spec, Tail(avps), seen)
             ELSE LET seen1 == IF spec[t] = mustExist THEN seen \cup {t} ELSE seen
                  IN  IF ~avpDecodes(a)
                      THEN [res |-> VResult("failed to decode AVP", t), seen |-> seen1]
                      ELSE validateWalkLenient(spec, Tail(avps), seen1)

\* The walk over m.avps: seen is the set of mandatory types marked true so
\* far.  The first AVP that is not in the table, or does not decode, ends
\* the walk with its error.
RECURSIVE validateWalk(_, _, _)
validateWalk(spec, avps, seen) ==
    IF avps = <<>>
    THEN [res |-> VResult("ok", -1), seen |-> seen]
    ELSE LET a == Head(avps)
             t == avpGetType(a)
         IN  IF ~hasAvp(spec, t)
             THEN [res |-> VResult("unexpected AVP", t), seen |-> seen]
             ELSE LET seen1 == IF spec[t] = mustExist THEN seen \cup {t} ELSE seen
                  IN  IF ~avpDecodes(a)
                      THEN [res |-> VResult("failed to decode AVP", t), seen |-> seen1]
                      ELSE validateWalk(spec, Tail(avps), seen1)

\* validate(): every result one call may return.  The final pass ranges over
\* a Go map, whose iteration order is not fixed: with several mandatory AVPs
\* missing, any one of them may be the one the error names.
validate(m) ==
    IF m.ver = 3
    THEN {VResult("not implemented", -1)}
    ELSE IF getType(m).status = "panic"
    THEN {VResult("abort", -1)}
    ELSE LET sp == getV2MsgSpec(getType(m).mt)
         IN  IF sp.err # ""
             THEN {VResult("no specification", -1)}
             ELSE LET w == validateWalk(sp.m, m.avps, {})
                      missing == must(sp.m) \ w.seen
                  IN  IF w.res.kind # "ok" THEN {w.res}
                      ELSE IF missing = {} THEN {VResult("ok", -1)}
                      ELSE {VResult("missing mandatory AVP", t) : t \in missing}

----------------------------------------------------------------------------
(* Builders *)

\* avpIn
AvpIn(typ, v) == [typ |-> typ, data |-> v]

\* TunnelConfig: the locally assigned and the peer's tunnel id (ControlConnID)
TunnelConfig(tid, ptid) == [TunnelID |-> tid, PeerTunnelID |-> ptid]

\* the loop of buildV2TunnelMsg over the remaining inputs
RECURSIVE buildAppend(_, _)
buildAppend(m, in) ==
    IF in = <<>>
    THEN [err |-> "", msg |-> m]
    ELSE LET r == newAvp(vendorIDIetf, Head(in).typ, Head(in).data)
         IN  IF r.err # ""
             THEN [err |-> "failed to create AVP", msg |-> NoMsg]
             ELSE buildAppend(appendAvp(m, r.avp), Tail(in))

\* buildV2TunnelMsg handing the peer's id over as the session id
buildV2TunnelMsgAsSession(ptid, in) ==
    LET r == newV2ControlMessage(0, ptid, <<>>)
    IN  IF r.err # "" THEN r ELSE buildAppend(r.msg, in)

\* buildV2TunnelMsg(ptid, in)
buildV2TunnelMsg(ptid, in) ==
    LET r == newV2ControlMessage(ptid, 0, <<>>)
    IN  IF r.err # "" THEN r ELSE buildAppend(r.msg, in)

HostNameOctets == <<114, 105, 110, 99, 101, 119, 105, 110, 100>>   \* "rincewind"

newV2Sccrq(cfg) ==
    buildV2TunnelMsg(0,
        << AvpIn(avpTypeMessage, Val("u16", avpMsgTypeSccrq, <<>>)),
           AvpIn(avpTypeProtocolVersion, Val("bytes", 0, <<1, 0>>)),
           AvpIn(avpTypeHostName, Val("str", 0, HostNameOctets)),
           AvpIn(avpTypeFramingCap, Val("u32", 3, <<>>)),
           AvpIn(avpTypeTunnelID, Val("u16", ToU16(cfg.TunnelID), <<>>)) >>)

newV2Sccrp(cfg) ==
    buildV2TunnelMsg(cfg.PeerTunnelID,
        << AvpIn(avpTypeMessage, Val("u16", avpMsgTypeSccrp, <<>>)),
           AvpIn(avpTypeProtocolVersion, Val("bytes", 0, <<1, 0>>)),
           AvpIn(avpTypeFramingCap, Val("u32", 3, <<>>)),
           AvpIn(avpTypeHostName, Val("str", 0, HostNameOctets)),
           AvpIn(avpTypeTunnelID, Val("u16", ToU16(cfg.TunnelID), <<>>)) >>)

newV2Scccn(cfg) ==
    buildV2TunnelMsg(cfg.PeerTunnelID,
        << AvpIn(avpTypeMessage, Val("u16", avpMsgTypeScccn, <<>>)) >>)

newV2Stopccn(rc, cfg) ==
    buildV2TunnelMsg(cfg.PeerTunnelID,
        << AvpIn(avpTypeMessage, Val("u16", avpMsgTypeStopccn, <<>>)),
           AvpIn(avpTypeTunnelID, Val("u16", ToU16(cfg.TunnelID), <<>>)),
           AvpIn(avpTypeResultCode, rc) >>)

newV2Hello(cfg) ==
    buildV2TunnelMsg(cfg.PeerTunnelID,
        << AvpIn(avpTypeMessage, Val("u16", avpMsgTypeHello, <<>>)) >>)

----------------------------------------------------------------------------
(* The buffer parser: one loop iteration of parseMessageBuffer *)

\* What is known of a loop iteration: where it started, the header it read,
\* the slice [lo, hi) it handed to a decoder (called), what the decoder did.
Iter(cursor, hlen, ver, called, lo, hi, parsed, status) ==
    [cursor |-> cursor, hlen |-> hlen, ver |-> ver, called |-> called,
     lo |-> lo, hi |-> hi, avpParsed |-> parsed, status |-> status]

NoIter == Iter(-1, 0, 0, FALSE, 0, 0, FALSE, "none")

\* the parser's state after a step
PState(p, i, msgs, e, it) ==
    [pc |-> p, pos |-> i, messages |-> msgs, err |-> e, last |-> it]

\* the bounds check with the subtraction done in int, after widening
lengthExceedsSigned(hlen, remaining) == hlen - commonHeaderLen > remaining

\* int(h.Len-commonHeaderLen) > r.Len(): the subtraction is in uint16
lengthExceeds(hlen, remaining) ==
    ToU16(hlen + Uint16Mod - commonHeaderLen) > remaining

\* a seek that goes back to where the frame started
seekBack(i, hlen) == i - commonHeaderLen

\* r.Seek(int64(h.Len), io.SeekCurrent): relative to the read index, which
\* stands after the common header
seekNext(i, hlen) == i + hlen

\* the version decoders of the two revisions
decodeV2(r, b, spare) ==
    IF r = "msg.go" THEN newL2tpV2ControlMessage(b, spare) ELSE bytesToV2CtlMsg(b, spare)

decodeV3(r, b, spare) ==
    IF r = "msg.go" THEN newL2tpV3ControlMessage(b, spare) ELSE bytesToV3CtlMsg(b, spare)

\* The body of the loop, entered with at least controlMessageMinLen octets
\* unread at index i.  Every error returns nil messages.  b is the whole
\* backing array (cap(b) = len(b)); the slice b[cursor:cursor+h.Len] handed
\* to a decoder keeps the octets of b after it as its spare capacity.
parseBody(r, b, i, msgs) ==
    LET cursor == i
        flagsVer == GetU16(b, cursor)
        hlen == GetU16(b, cursor + 2)
        i4 == cursor + commonHeaderLen
        v == protocolVersion(flagsVer)
        lo == cursor
        hi == cursor + hlen
    IN  IF lengthExceeds(hlen, rLen(b, i4))
        THEN PState("done", i4, <<>>, "malformed header: length exceeds buffer bounds",
                    Iter(cursor, hlen, 0, FALSE, 0, 0, FALSE, "err"))
        ELSE IF v.err # ""
        THEN PState("done", i4, <<>>, v.err,
                    Iter(cursor, hlen, 0, FALSE, 0, 0, FALSE, "err"))
        ELSE IF hi > Len(b)
        THEN PState("abort", i4, <<>>, "",        \* slice bounds out of range
                    Iter(cursor, hlen, v.ver, TRUE, lo, hi, FALSE, "panic"))
        ELSE LET d == IF v.ver = ProtocolVersion2
                      THEN decodeV2(r, Slice(b, lo, hi), Slice(b, hi, Len(b)))
                      ELSE decodeV3(r, Slice(b, lo, hi), Slice(b, hi, Len(b)))
                 it == Iter(cursor, hlen, v.ver, TRUE, lo, hi, d.avpParsed, d.status)
             IN  CASE d.status = "err" -> PState("done", i4, <<>>, d.err, it)
                   [] d.status = "panic" -> PState("abort", i4, <<>>, "", it)
                   [] OTHER -> PState("parsing", seekNext(i4, hlen),
                                      Append(msgs, d.msg), "", it)

\* One step of the parser of revision r: the loop test, then the body.
parseStep(r, b, i, msgs, it) ==
    IF rLen(b, i) >= controlMessageMinLen
    THEN parseBody(r, b, i, msgs)
    ELSE PState("done", i, msgs, "", it)

----------------------------------------------------------------------------
(* Inputs: what arrives from the network, what the callers pass *)

RawAvp(typ, data) ==
    [FlagLen |-> 32768 + avpHeaderLen + Len(data), VendorID |-> vendorIDIetf,
     AvpType |-> typ, data |-> data]

MsgTypeAvp(t) == RawAvp(avpTypeMessage, PutU16(t))

GoodCfg == TunnelConfig(1, 2)

ChunkKinds ==
    { "hello", "zlb", "sccrq", "sccrq-no-tid", "hostname-first", "v3-hello",
      "v3-zlb", "badver", "badver-long", "overlong", "wrap", "short",
      "slack-avp", "bad-avp", "pad4", "slack3" }

\* a bare 12-octet piece: a common header and eight octets after it
Bare(flagsVer, len) == PutU16(flagsVer) \o PutU16(len) \o <<0, 2, 0, 0, 0, 0, 0, 0>>

ChunkBytes(k) ==
    CASE k = "hello" -> toBytes(newV2Hello(GoodCfg).msg)
      [] k = "zlb" -> toBytes(newV2ControlMessage(2, 0, <<>>).msg)
      [] k = "sccrq" -> toBytes(newV2Sccrq(GoodCfg).msg)
      [] k = "sccrq-no-tid" ->
            toBytes(buildV2TunnelMsg(0,
                << AvpIn(avpTypeMessage, Val("u16", avpMsgTypeSccrq, <<>>)),
                   AvpIn(avpTypeProtocolVersion, Val("bytes", 0, <<1, 0>>)),
                   AvpIn(avpTypeHostName, Val("str", 0, HostNameOctets)),
                   AvpIn(avpTypeFramingCap, Val("u32", 3, <<>>)) >>).msg)
      [] k = "hostname-first" ->
            toBytes(newV2ControlMessage(2, 0, <<RawAvp(avpTypeHostName, <<114>>)>>).msg)
      [] k = "v3-hello" ->
            toBytes(Message(3, V3Header(51203, 20, <<0, 1>>, 0, 0), <<MsgTypeAvp(avpMsgTypeHello)>>))
      [] k = "v3-zlb" -> Bare(51203, 12)
      [] k = "badver" -> Bare(51201, 12)
      [] k = "badver-long" -> Bare(51201, 40)
      [] k = "overlong" -> Bare(51202, 40)
      [] k = "wrap" -> Bare(51202, 2)
      [] k = "short" -> Bare(51202, 8)
      [] k = "slack-avp" -> Bare(51202, 16) \o <<0, 0, 0, 0>>
      [] k = "bad-avp" -> Bare(51202, 20) \o <<128, 30, 0, 0, 0, 0, 0, 6>>
      [] k = "pad4" -> <<0, 0, 0, 0>>
      [] OTHER -> <<0, 0, 0>>

RECURSIVE Concat(_)
Concat(ks) == IF ks = <<>> THEN <<>> ELSE ChunkBytes(Head(ks)) \o Concat(Tail(ks))

ChunkSeqs == UNION {[1..n -> ChunkKinds] : n \in 0..MaxChunks}

\* the AVPs a caller appends
AvpPool ==
    { MsgTypeAvp(avpMsgTypeHello), MsgTypeAvp(avpMsgTypeStopccn),
      RawAvp(avpTypeTunnelID, PutU16(1)), RawAvp(avpTypeResultCode, PutU16(1)),
      RawAvp(avpTypeSessionID, PutU16(1)), RawAvp(avpTypeTunnelID, <<1>>) }

\* the AVPs a caller appends to a message the parser returned
ReceivedAvpPool == { MsgTypeAvp(avpMsgTypeHello), RawAvp(avpTypeTunnelID, PutU16(1)) }

InitAvpSeqs == { <<>>, <<MsgTypeAvp(avpMsgTypeScccn)>>, <<RawAvp(avpTypeHostName, <<114>>)>> }

Ids == {2, 70000}
Ccids == {70000}
Configs == {TunnelConfig(t, p) : t \in {1, 70000}, p \in Ids}
ResultCodes == { Val("rc", 1, <<0, 0>>), Val("nil", 0, <<>>) }
SeqNums == {1}

\* the last constructor call: for a builder the two ids of its configuration,
\* for newV2ControlMessage its tunnel id and session id arguments
NoBuild == [op |-> "none", err |-> "", tid |-> 0, ptid |-> 0]

----------------------------------------------------------------------------
(* The state machine *)

Init ==
    /\ mode \in {"rx", "tx"}
    /\ IF mode = "rx"
       THEN /\ rev \in {"msg.go", "part_000"}
            /\ chunks \in ChunkSeqs
            /\ pc = "parsing"
       ELSE /\ rev = "part_000"
            /\ chunks = <<>>
            /\ pc = "idle"
    /\ buf = Concat(chunks)
    /\ pos = 0
    /\ messages = <<>>
    /\ err = ""
    /\ last = NoIter
    /\ msg = NoMsg
    /\ bres = NoBuild
    /\ vmsg = NoMsg
    /\ vres = NoResult
    /\ vprev = NoResult
    /\ edits = 0

ParserStep(r) ==
    /\ pc = "parsing"
    /\ rev = r
    /\ LET s == parseStep(r, buf, pos, messages, last)
       IN  /\ pc' = s.pc
           /\ pos' = s.pos
           /\ messages' = s.messages
           /\ err' = s.err
           /\ last' = s.last
    /\ UNCHANGED <<mode, rev, chunks, buf, msg, bres, vmsg, vres, vprev, edits>>

\* part_000: parseMessageBuffer
parseMessageBuffer == ParserStep("part_000")

\* msg.go: ParseMessageBuffer
ParseMessageBuffer == ParserStep("msg.go")

Fresh == mode = "tx" /\ pc = "idle" /\ msg = NoMsg /\ bres = NoBuild

Built(op, cfg, r) ==
    /\ msg' = r.msg
    /\ bres' = [op |-> op, err |-> r.err, tid |-> cfg.TunnelID, ptid |-> cfg.PeerTunnelID]
    /\ UNCHANGED <<mode, rev, chunks, buf, pos, messages, err, pc, last, vmsg, vres, vprev,
                   edits>>

NewV2ControlMessage ==
    /\ Fresh
    /\ \E tid \in Ids, sid \in {0, 70000}, avps \in InitAvpSeqs :
          Built("newV2ControlMessage", TunnelConfig(tid, sid),
                newV2ControlMessage(tid, sid, avps))

\* the call is recorded with the control connection id as its tunnel id
NewV3ControlMessage ==
    /\ Fresh
    /\ \E ccid \in Ccids, avps \in InitAvpSeqs :
          Built("newV3ControlMessage", TunnelConfig(ccid, 0),
                newV3ControlMessage(ccid, avps))

NewV2Sccrq == Fresh /\ \E cfg \in Configs : Built("newV2Sccrq", cfg, newV2Sccrq(cfg))
NewV2Sccrp == Fresh /\ \E cfg \in Configs : Built("newV2Sccrp", cfg, newV2Sccrp(cfg))
NewV2Scccn == Fresh /\ \E cfg \in Configs : Built("newV2Scccn", cfg, newV2Scccn(cfg))
NewV2Hello == Fresh /\ \E cfg \in Configs : Built("newV2Hello", cfg, newV2Hello(cfg))
NewV2Stopccn ==
    Fresh /\ \E cfg \in Configs, rc \in ResultCodes :
                Built("newV2Stopccn", cfg, newV2Stopccn(rc, cfg))

Held == mode = "tx" /\ pc = "idle" /\ msg # NoMsg

\* the parser has returned messages and the caller may still change one
Received == pc = "done" /\ edits < MaxEdits

\* appendAvp on a message under construction (v2 or v3), or on one of the
\* messages the parser returned: the list holds pointers, so the change shows
\* in the list
AppendAvp ==
    \/ /\ Held
       /\ Len(msg.avps) < MaxAvps
       /\ \E a \in AvpPool : msg' = appendAvp(msg, a)
       /\ UNCHANGED <<mode, rev, chunks, buf, pos, messages, err, pc, last, bres,
                      vmsg, vres, vprev, edits>>
    \/ /\ Received
       /\ \E i \in 1..Len(messages), a \in ReceivedAvpPool :
             /\ Len(messages[i].avps) < MaxAvps
             /\ messages' = [messages EXCEPT ![i] = appendAvp(@, a)]
       /\ edits' = edits + 1
       /\ UNCHANGED <<mode, rev, chunks, buf, pos, err, pc, last, msg, bres,
                      vmsg, vres, vprev>>

\* setTransportSeqNum, on the same messages
SetTransportSeqNum ==
    \/ /\ Held
       /\ \E ns \in SeqNums, nr \in SeqNums : msg' = setTransportSeqNum(msg, ns, nr)
       /\ UNCHANGED <<mode, rev, chunks, buf, pos, messages, err, pc, last, bres,
                      vmsg, vres, vprev, edits>>
    \/ /\ Received
       /\ \E i \in 1..Len(messages), ns \in SeqNums, nr \in SeqNums :
             messages' = [messages EXCEPT ![i] = setTransportSeqNum(@, ns, nr)]
       /\ edits' = edits + 1
       /\ UNCHANGED <<mode, rev, chunks, buf, pos, err, pc, last, msg, bres,
                      vmsg, vres, vprev>>

\* the message is encoded and the octets are handed to the buffer parser
ToBytes ==
    /\ Held
    /\ buf' = toBytes(msg)
    /\ pos' = 0
    /\ pc' = "parsing"
    /\ UNCHANGED <<mode, rev, chunks, messages, err, last, msg, bres, vmsg, vres, vprev,
                   edits>>

\* the messages a caller holds and may validate
Holding ==
    (IF msg # NoMsg THEN {msg} ELSE {}) \cup
    (IF pc = "done" THEN {messages[i] : i \in 1..Len(messages)} ELSE {})

Validate ==
    /\ \E m \in Holding :
          /\ vmsg' = m
          /\ vprev' = IF vmsg = m THEN vres ELSE NoResult
          /\ vres' \in validate(m)
    /\ UNCHANGED <<mode, rev, chunks, buf, pos, messages, err, pc, last, msg, bres, edits>>

Next ==
    \/ parseMessageBuffer
    \/ ParseMessageBuffer
    \/ NewV2ControlMessage
    \/ NewV3ControlMessage
    \/ NewV2Stopccn
    \/ NewV2Sccrq
    \/ NewV2Sccrp
    \/ NewV2Scccn
    \/ NewV2Hello
    \/ AppendAvp
    \/ SetTransportSeqNum
    \/ ToBytes
    \/ Validate

Spec == Init /\ [][Next]_vars

----------------------------------------------------------------------------
(* Long messages: a caller appends AVPs of the largest size the 10-bit AVP  *)
(* length field allows until the message no longer fits the 16-bit header   *)
(* length.                                                                  *)

\* an AVP of avpMaxLen octets: its header and a payload of zeros
BigAvp(typ) == RawAvp(typ, [i \in 1..(avpMaxLen - avpHeaderLen) |-> 0])

InitLen ==
    /\ mode = "len"
    /\ rev = "part_000"
    /\ chunks = <<>>
    /\ pc = "idle"
    /\ buf = <<>>
    /\ pos = 0
    /\ messages = <<>>
    /\ err = ""
    /\ last = NoIter
    /\ msg = NoMsg
    /\ bres = NoBuild
    /\ vmsg = NoMsg
    /\ vres = NoResult
    /\ vprev = NoResult
    /\ edits = 0

HeldLen == mode = "len" /\ pc = "idle" /\ msg # NoMsg

NewLongMessage ==
    /\ mode = "len" /\ pc = "idle" /\ msg = NoMsg /\ bres = NoBuild
    /\ \E avps \in {<<>>, <<MsgTypeAvp(avpMsgTypeHello)>>, <<BigAvp(avpTypeHostName)>>} :
          Built("newV2ControlMessage", TunnelConfig(2, 0),
                newV2ControlMessage(2, 0, avps))

AppendBigAvp ==
    /\ HeldLen
    /\ Len(msg.avps) < MaxBigAvps
    /\ msg' = appendAvp(msg, BigAvp(avpTypeVendorName))
    /\ UNCHANGED <<mode, rev, chunks, buf, pos, messages, err, pc, last, bres,
                   vmsg, vres, vprev, edits>>

SetLongSeqNum ==
    /\ HeldLen
    /\ \E ns \in SeqNums, nr \in SeqNums : msg' = setTransportSeqNum(msg, ns, nr)
    /\ UNCHANGED <<mode, rev, chunks, buf, pos, messages, err, pc, last, bres,
                   vmsg, vres, vprev, edits>>

NextLen ==
    \/ NewLongMessage
    \/ AppendBigAvp
    \/ SetLongSeqNum

SpecLen == InitLen /\ [][NextLen]_vars

----------------------------------------------------------------------------
(* Properties *)

MalformedLength == "malformed header: length exceeds buffer bounds"
IllegalVersion == "illegal protocol version"
FirstAvpNotMessageType == "first AVP is not Message Type AVP"
V3NotImplemented == "newL2tpV3ControlMessage not implemented"

Returned == pc = "done"
Stopped == pc \in {"done", "abort"}

\* the returned messages are as the parser left them
Untouched == edits = 0

\* the chunk kinds that are complete, decodable v2 frames
WellFormedV2 == {"hello", "zlb", "sccrq", "sccrq-no-tid"}

\* C1: a buffer that is the concatenation of k >= 1 well-formed v2 frames
\* parses into exactly k messages, the i-th being the decode of the i-th
\* frame's octets.
C1_AllFramesParsed ==
    (/\ mode = "rx"
     /\ Stopped /\ Untouched
     /\ Len(chunks) >= 1
     /\ \A i \in 1..Len(chunks) : chunks[i] \in WellFormedV2)
    => /\ Returned
       /\ err = ""
       /\ Len(messages) = Len(chunks)
       /\ \A i \in 1..Len(chunks) :
              messages[i] = bytesToV2CtlMsg(ChunkBytes(chunks[i]), <<>>).msg

\* the first common header of the buffer carries a version other than 2, 3
FirstVersionIllegal == Len(buf) >= commonHeaderLen /\ GetU16(buf, 0) % 16 \notin {2, 3}

\* C2 as stated: whatever the buffer's size and the header's length field,
\* a first header with an illegal version makes the parse fail with the
\* illegal-protocol-version error.
C2_Original ==
    (mode = "rx" /\ Stopped /\ FirstVersionIllegal) => err = IllegalVersion

\* C2 amended: when the buffer holds at least 12 octets and the first
\* header's length passes the bounds check (length - 4, in 16 bits, is at
\* most the octets after the common header), an illegal version nibble makes
\* the parse return the illegal-protocol-version error and no messages.
C2_IllegalVersion ==
    (/\ pc # "parsing" /\ pc # "idle"
     /\ Len(buf) >= controlMessageMinLen
     /\ FirstVersionIllegal
     /\ (GetU16(buf, 2) + 65532) % 65536 <= Len(buf) - 4)
    => (Returned /\ err = IllegalVersion /\ messages = <<>>)

C2_Witness ==
    /\ Returned /\ err = IllegalVersion
    /\ Len(chunks) = 2 /\ chunks[1] = "badver"

\* C3: whenever the header length minus 4 (in 16 bits) exceeds the octets
\* left after the common header, the parse returns the malformed-length error
\* and no messages; and every slice handed to a decoder lies in the buffer.
C3_LengthBounds ==
    /\ (/\ last.cursor >= 0
        /\ (last.hlen + 65532) % 65536 > Len(buf) - (last.cursor + 4))
       => (Returned /\ err = MalformedLength /\ messages = <<>> /\ ~last.called)
    /\ last.called => (0 <= last.lo /\ last.lo <= last.hi /\ last.hi <= Len(buf))

\* a frame was decoded before, then a header shorter than 4 is rejected
C3_Witness ==
    /\ Returned /\ err = MalformedLength /\ messages = <<>>
    /\ last.cursor > 0 /\ last.hlen < commonHeaderLen

\* C4: a v3 frame that passes the bounds check makes the parse return the
\* not-implemented error and no messages; no v3 message is ever returned.
C4_V3NotImplemented ==
    /\ (last.called /\ last.ver = ProtocolVersion3)
       => (Returned /\ err = V3NotImplemented /\ messages = <<>>)
    /\ \A i \in 1..Len(messages) : messages[i].ver # 3

\* C5: a v2 frame of length 12 decodes without a call of the AVP parser into
\* a message without AVPs whose type is the Acknowledgement pseudo-type.
C5_ZeroLengthBody ==
    (last.called /\ last.ver = ProtocolVersion2 /\ last.hlen = v2HeaderLen /\ Untouched)
    => /\ last.status = "ok" /\ ~last.avpParsed
       /\ pc # "abort" /\ err = ""
       /\ messages # <<>>
       /\ messages[Len(messages)].avps = <<>>
       /\ messages[Len(messages)].ver = 2
       /\ messages[Len(messages)].header.Len = v2HeaderLen
       /\ getType(messages[Len(messages)]) = [status |-> "ok", mt |-> avpMsgTypeAck]

C5_Witness ==
    /\ Returned /\ last.called /\ last.ver = ProtocolVersion2
    /\ last.hlen = v2HeaderLen /\ Len(messages) = 2

\* the AVPs of the frame the last iteration looked at, as the AVP parser
\* returns them
LastPayload ==
    parseAVPBuffer(Slice(buf, last.cursor + v2HeaderLen, last.cursor + last.hlen))

\* C6: a v2 frame longer than 12 octets whose first AVP is not Message-Type
\* is rejected with the first-AVP error, so every v2 message returned has no
\* AVPs or a Message-Type AVP first.
C6_FirstAvp ==
    /\ (/\ last.called /\ last.ver = ProtocolVersion2 /\ last.hlen > v2HeaderLen
        /\ LastPayload.err = "" /\ LastPayload.avps # <<>>
        /\ LastPayload.avps[1].AvpType # avpTypeMessage)
       => (Returned /\ err = FirstAvpNotMessageType /\ messages = <<>>)
    /\ \A i \in 1..Len(messages) :
          (messages[i].ver = 2 /\ Untouched) =>
             \/ messages[i].avps = <<>>
             \/ messages[i].avps[1].AvpType = avpTypeMessage

C6_Witness ==
    /\ Returned /\ err = FirstAvpNotMessageType
    /\ last.cursor > 0 /\ last.hlen > v2HeaderLen

\* the types of the AVPs of m, and the first AVP whose type is not in table
AvpTypes(m) == {m.avps[i].AvpType : i \in 1..Len(m.avps)}
Offending(m, table) == {i \in 1..Len(m.avps) : m.avps[i].AvpType \notin DOMAIN table}
FirstOffending(m, table) ==
    CHOOSE i \in Offending(m, table) : \A j \in Offending(m, table) : i <= j

Registered ==
    {avpMsgTypeSccrq, avpMsgTypeSccrp, avpMsgTypeScccn, avpMsgTypeStopccn, avpMsgTypeHello}

\* C7: for a v2 message with a derived type whose AVPs all decode, validate()
\* succeeds iff the type has a table, every AVP type is in it and every
\* MustExist type occurs; otherwise it returns no-specification, unexpected
\* AVP (naming the first offending AVP) or missing-mandatory (naming a
\* missing type), in that order of precedence.
C7_Validate ==
    (/\ vres # NoResult /\ vmsg.ver = 2
     /\ getType(vmsg).status = "ok"
     /\ \A i \in 1..Len(vmsg.avps) : avpDecodes(vmsg.avps[i]))
    => LET t == getType(vmsg).mt
           table == getV2MsgSpec(t).m
       IN  IF t \notin Registered
           THEN vres.kind = "no specification"
           ELSE IF Offending(vmsg, table) # {}
           THEN vres = VResult("unexpected AVP",
                               vmsg.avps[FirstOffending(vmsg, table)].AvpType)
           ELSE IF must(table) \ AvpTypes(vmsg) # {}
           THEN /\ vres.kind = "missing mandatory AVP"
                /\ vres.at \in must(table) \ AvpTypes(vmsg)
           ELSE vres = VResult("ok", -1)

\* an SCCRQ without Tunnel-ID was validated
C7_Witness ==
    /\ vres = VResult("missing mandatory AVP", avpTypeTunnelID)
    /\ getType(vmsg) = [status |-> "ok", mt |-> avpMsgTypeSccrq]
    /\ Len(vmsg.avps) = 4

Builders == {"newV2Sccrq", "newV2Sccrp", "newV2Scccn", "newV2Stopccn", "newV2Hello"}

\* C8: a builder fails with the id-out-of-range error, and yields no message,
\* whenever the configuration's own tunnel id or its peer tunnel id exceeds
\* the 16-bit range.
C8_IdOutOfRange ==
    (bres.op \in Builders /\ (bres.tid > v2TidSidMax \/ bres.ptid > v2TidSidMax))
    => (bres.err = "v2 tunnel ID out of range" /\ msg = NoMsg)

\* C9 as stated: every message built by newV2ControlMessage and any appendAvp
\* and setTransportSeqNum calls parses back from its octets as itself.
C9_Original ==
    (mode = "tx" /\ Stopped /\ Untouched /\ msg.ver = 2)
    => (Returned /\ err = "" /\ messages = <<msg>>)

\* C9 amended: the round trip holds for the built messages whose AVP sequence
\* is empty or starts with a Message-Type AVP, whose AVPs carry a length field
\* equal to their encoded size, and whose total length fits the 16-bit field.
C9_RoundTrip ==
    (/\ mode = "tx" /\ Stopped /\ Untouched /\ msg.ver = 2
     /\ (msg.avps = <<>> \/ msg.avps[1].AvpType = avpTypeMessage)
     /\ \A i \in 1..Len(msg.avps) :
           msg.avps[i].FlagLen % 1024 = avpHeaderLen + Len(msg.avps[i].data)
     /\ v2HeaderLen + avpsLengthBytes(msg.avps) < Uint16Mod)
    => (Returned /\ err = "" /\ messages = <<msg>>)

C9_Witness ==
    /\ mode = "tx" /\ Returned /\ messages = <<msg>>
    /\ Len(msg.avps) >= 2 /\ msg.header.Ns = 1
    /\ bres.op = "newV2ControlMessage"

\* C10: a second validate() of the same message returns what the first did,
\* error kind and named AVP type included.
C10_ValidateDeterministic ==
    vprev # NoResult => vres = vprev

\* C11: the buffer parser never aborts: whatever the buffer and whatever the
\* AVP parser returns, the parse ends with a message list or an error.
C11_NeverAborts == pc # "abort"

\* the message a step leaves differs from the one it found at most in its
\* AVP sequence and header length (appendAvp), or in ns and nr
\* (setTransportSeqNum)
OnlyAvpsAndLen ==
    /\ msg'.ver = msg.ver
    /\ [msg'.header EXCEPT !.Len = 0] = [msg.header EXCEPT !.Len = 0]
    /\ SubSeq(msg'.avps, 1, Len(msg.avps)) = msg.avps

OnlySeqNums ==
    /\ msg'.ver = msg.ver /\ msg'.avps = msg.avps
    /\ [msg'.header EXCEPT !.Ns = 0, !.Nr = 0] = [msg.header EXCEPT !.Ns = 0, !.Nr = 0]

\* C12: after newV2ControlMessage and any appendAvp calls the header length
\* is 12 plus the sum of the AVPs' total lengths and toBytes emits exactly
\* that many octets, also when the sum exceeds 65535; appendAvp changes only
\* the AVP sequence and the length, setTransportSeqNum only ns and nr.
C12_LengthMaintained ==
    /\ [](msg # NoMsg =>
            /\ msg.header.Len = v2HeaderLen + avpsLengthBytes(msg.avps)
            /\ Len(toBytes(msg)) = msg.header.Len)
    /\ [][(msg # NoMsg /\ msg' # msg) => (OnlyAvpsAndLen \/ OnlySeqNums)]_vars

\* a step in which a builder is called
BuildStep == bres.op = "none" /\ bres'.op \in Builders

\* the AVP types each builder lists, in its order, and its message type
ListedAvpTypes(op) ==
    CASE op = "newV2Sccrq" -> <<avpTypeMessage, avpTypeProtocolVersion, avpTypeHostName,
                               avpTypeFramingCap, avpTypeTunnelID>>
      [] op = "newV2Sccrp" -> <<avpTypeMessage, avpTypeProtocolVersion, avpTypeFramingCap,
                               avpTypeHostName, avpTypeTunnelID>>
      [] op = "newV2Stopccn" -> <<avpTypeMessage, avpTypeTunnelID, avpTypeResultCode>>
      [] OTHER -> <<avpTypeMessage>>

ListedMsgType(op) ==
    CASE op = "newV2Sccrq" -> avpMsgTypeSccrq
      [] op = "newV2Sccrp" -> avpMsgTypeSccrp
      [] op = "newV2Scccn" -> avpMsgTypeScccn
      [] op = "newV2Stopccn" -> avpMsgTypeStopccn
      [] OTHER -> avpMsgTypeHello

\* the message a builder returned is addressed to tunnel tid, has zero
\* session id and sequence numbers and holds exactly the listed AVPs
BuiltAsListed(m, op, tid) ==
    /\ m.ver = 2
    /\ m.header.Tid = tid
    /\ m.header.Sid = 0 /\ m.header.Ns = 0 /\ m.header.Nr = 0
    /\ [i \in 1..Len(m.avps) |-> m.avps[i].AvpType] = ListedAvpTypes(op)
    /\ getType(m) = [status |-> "ok", mt |-> ListedMsgType(op)]

\* C13 as stated: every builder that succeeds returns a message addressed to
\* the configuration's peer tunnel id, with zero session id, ns and nr and
\* exactly the listed AVPs; a builder that fails returns no message.
C13_Original ==
    [][BuildStep =>
         IF bres'.err = ""
         THEN BuiltAsListed(msg', bres'.op, bres'.ptid)
         ELSE msg' = NoMsg]_vars

\* C13 amended: as stated for SCCRP, SCCCN, StopCCN and Hello; the SCCRQ
\* builder addresses its message to tunnel id 0, whatever the peer tunnel id.
C13_Builders ==
    [][BuildStep =>
         IF bres'.err = ""
         THEN BuiltAsListed(msg', bres'.op,
                            IF bres'.op = "newV2Sccrq" THEN 0 ELSE bres'.ptid)
         ELSE msg' = NoMsg]_vars

\* a StopCCN was built for peer tunnel 2; another build failed on an AVP
C13_Witness ==
    /\ bres.op = "newV2Stopccn" /\ bres.err = "" /\ bres.ptid = 2
    /\ msg.header.Tid = 2 /\ Len(msg.avps) = 3 /\ pc = "idle"

\* a step of the buffer parser
ParsingStep ==
    pc = "parsing" /\ (pc' # pc \/ pos' # pos \/ messages' # messages)

\* C14: the parse terminates: the loop is left normally, with the messages
\* found so far and no error, as soon as fewer than 12 octets are unread
\* (trailing slack, an empty or short buffer); an iteration entered with 12
\* or more unread octets ends the parse (an error and no messages, or the
\* abort of C11) or appends one message and moves the read index strictly
\* forward, which can happen only while the index is within the buffer.
C14_Terminates ==
    [][ParsingStep =>
         /\ rLen(buf, pos) < controlMessageMinLen =>
               (pc' = "done" /\ err' = "" /\ messages' = messages /\ pos' = pos)
         /\ rLen(buf, pos) >= controlMessageMinLen =>
               \/ pc' = "done" /\ err' # "" /\ messages' = <<>>
               \/ pc' = "abort"
               \/ /\ pc' = "parsing" /\ err' = ""
                  /\ pos' > pos /\ pos + controlMessageMinLen <= Len(buf)
                  /\ Len(messages') = Len(messages) + 1
         /\ Len(buf) < controlMessageMinLen =>
               (pc' = "done" /\ err' = "" /\ messages' = <<>>)]_vars

\* a Hello frame followed by three octets of slack parsed into one message
C14_Witness ==
    /\ chunks = <<"hello", "slack3">>
    /\ pc = "done" /\ err = "" /\ Len(messages) = 1
    /\ pos >= Len(buf)

====
